---- MODULE Spec2Model ----
(***************************************************************************)
(* Model of the resource-contract governance engine of yolo-mode:          *)
(*   src/yolo_mode/contracts.py  (AgentContract, ConservationEnforcer)     *)
(*   src/yolo_mode/agents/parallel_executor.py  (ContractAwareExecutor)    *)
(*   src/yolo_mode/agents/resource_aware.py     (ResourceAwareSelector)    *)
(*   src/yolo_mode/agents/manager.py            (OSAManagerAgent)          *)
(*   src/yolo_mode/scripts/yolo_loop.py         (ParallelExecutor)         *)
(* Amounts are integers; scores and weights are in tenths (0.8 -> 8);      *)
(* time is in whole seconds.                                               *)
(***************************************************************************)
EXTENDS Integers, Sequences, FiniteSets, TLC

\* ------------------------------------------------------------------ bounds
MaxContracts == 3
NumThreads == 2
MaxTime == 93
MaxUnbudgeted == 2
MaxTasks == 4
MaxWorkers == 3
MaxSelections == 2
MaxActions == 4
MaxSubtasks == 2
MaxPlanTasks == 3

\* --------------------------------------------------------------- constants
Inf == 1000000000

Contracts == 1..MaxContracts
Threads == 1..NumThreads
Owner == 1
Root == 1
NoContract == 0

ContractMode == {"urgent", "economical", "balanced"}

ResourceDimension ==
    {"tokens", "api_calls", "iterations", "web_searches", "compute_time", "external_cost"}

ContractState == {"drafted", "active", "fulfilled", "violated", "expired", "terminated"}

Unconstructed == "unconstructed"

TerminalStates == {"fulfilled", "violated", "expired", "terminated"}

\* OutputSpecification.quality_threshold and SuccessCriteria.threshold, in tenths
quality_threshold == 8
threshold == 8
EmptyCriteriaScore == 10

\* ------------------------------------------------------------ input domains
TickSteps == {31}
ConsumeInputs == { <<"tokens", 50000>>, <<"api_calls", 2>> }
SetBudgetInputs == { <<"tokens", 100>> }
EmptyBudgets == [r \in {} |-> 0]
ExplicitResources == { EmptyBudgets, [tokens |-> 100] }
ExplicitDurations == { 300, 5 }
PhiConfigs == { <<>>, <<8, 4>> }
PsiConfigs == { 0, 1 }
Qualities == { 5, 8 }
Outcomes == { "true", "false", "raise" }

VARIABLES
    state,                \* AgentContract.state ("unconstructed" before __init__)
    mode,                 \* AgentContract.mode
    parent,               \* AgentContract.parent (0 = None)
    R,                    \* AgentContract.R.budgets, a dict dimension -> budget
    duration,             \* AgentContract.T.duration
    start_time,           \* AgentContract.T.start_time
    resource_consumption, \* AgentContract._resource_consumption
    Phi,                  \* weights of AgentContract.Phi.criteria
    Psi,                  \* number of AgentContract.Psi.conditions
    lock,                 \* AgentContract._lock: 0 = free, else the holding thread
    child_contracts,      \* ConservationEnforcer(root).child_contracts
    now,                  \* time.time()
    waiting,              \* per thread: 0 = running, else the contract whose lock it waits for
    last,                 \* the call made by the last step and what it returned
    contract,             \* ContractAwareExecutor.contract (0 = None)
    max_workers,          \* ContractAwareExecutor.max_workers
    phase,                \* where execute_batch is: idle, pool, returned, raised, blocked
    tasks,                \* len(tasks) of the execute_batch call; the items are 1..tasks
    target_batch_size,    \* the local of _plan_contract_aware_batches (0 = not computed)
    batches,              \* the planned batches, each a sequence of items
    batch_num,            \* number of batches execute_batch has run and collected
    started,              \* items a pool worker has taken so far, in submission order
    running,              \* items executing in a pool worker
    results,              \* the results collected so far
    consume_frame,        \* per thread: where it is inside consume_resource, and its locals
    selection_history,    \* ResourceAwareSelector.selection_history
    mgr_tasks,            \* OSAManagerAgent.state.tasks, in insertion order
    action_history,       \* OSAManagerAgent.state.action_history (the action names)
    plan_max_workers,     \* ParallelExecutor.max_workers (scripts/yolo_loop.py)
    plan_phase,           \* where execute_plan_parallel is: idle, head, batch, returned, raised
    plan_tasks,           \* its local tasks: the pending tasks, in plan order
    completed_tasks,      \* its local completed_tasks: descriptions of the successes
    plan_batch,           \* the tasks of the current batch whose worker is still running
    all_results           \* its local all_results

executor_vars == <<contract, max_workers, phase, tasks, target_batch_size, batches,
                   batch_num, started, running, results>>

plan_vars == <<plan_max_workers, plan_phase, plan_tasks, completed_tasks, plan_batch,
               all_results>>

other_vars == <<consume_frame, selection_history, mgr_tasks, action_history, plan_vars>>

vars == <<state, mode, parent, R, duration, start_time, resource_consumption,
          Phi, Psi, lock, child_contracts, now, waiting, last,
          contract, max_workers, phase, tasks, target_batch_size, batches,
          batch_num, started, running, results,
          consume_frame, selection_history, mgr_tasks, action_history,
          plan_max_workers, plan_phase, plan_tasks, completed_tasks, plan_batch,
          all_results>>

\* ------------------------------------------------------------------ helpers
Call(op, c, ok) ==
    [op |-> op, c |-> c, ok |-> ok, score |-> 0,
     dim |-> "", amount |-> 0, quality |-> 0, outs |-> <<>>,
     res |-> EmptyBudgets, dur |-> 0, reserve |-> 0, alloc |-> EmptyBudgets,
     available |-> <<>>, listing |-> <<>>, task_id |-> <<>>]

\* the arguments resources=ResourceConstraints(res), temporal=TemporalConstraints(dur)
ConstructCall(c, res, dur) ==
    [Call("construct", c, "true") EXCEPT !.res = res, !.dur = dur]

RECURSIVE SumSeq(_)
SumSeq(s) == IF s = <<>> THEN 0 ELSE Head(s) + SumSeq(Tail(s))

Max(a, b) == IF a >= b THEN a ELSE b

\* ------------------------------------------------------ ResourceConstraints
get_budget(c, resource) ==
    IF resource \in DOMAIN R[c] THEN R[c][resource] ELSE Inf

set_budget(budgets, resource, budget) ==
    [r \in (DOMAIN budgets) \cup {resource} |->
        IF r = resource THEN budget ELSE budgets[r]]

\* ------------------------------------------------------ TemporalConstraints
T_is_expired(c) == now - start_time[c] > duration[c]

time_remaining(c) == Max(0, duration[c] - (now - start_time[c]))

\* ------------------------------------------------------------ AgentContract
ModeDuration(m) ==
    CASE m = "urgent" -> 30
      [] m = "economical" -> 60
      [] m = "balanced" -> 90

\* the URGENT and ECONOMICAL token budgets exchanged
ModeTokens_Swapped(m) ==
    CASE m = "urgent" -> 75000
      [] m = "economical" -> 50000
      [] m = "balanced" -> 100000

ModeTokens(m) ==
    CASE m = "urgent" -> 50000
      [] m = "economical" -> 75000
      [] m = "balanced" -> 100000

ModeIterations(m) ==
    CASE m = "urgent" -> 3
      [] m = "economical" -> 6
      [] m = "balanced" -> 10

\* _apply_mode_defaults: runs last in __init__, over whatever was supplied
apply_mode_defaults_budgets(budgets, m) ==
    set_budget(set_budget(budgets, "tokens", ModeTokens(m)), "iterations", ModeIterations(m))

apply_mode_defaults_duration(d, m) == ModeDuration(m)

get_consumption(c, resource) == resource_consumption[c][resource]

is_expired(c) == T_is_expired(c) \/ state[c] = "expired"

\* check_conservation is called on the parent object p (activate: self.parent.check_conservation)
\* and compares the budgets it is given against the budgets of p's own parent.
check_conservation(p, child_budgets) ==
    IF parent[p] = NoContract
    THEN TRUE
    ELSE \A resource \in DOMAIN child_budgets :
            \/ get_budget(parent[p], resource) = Inf
            \/ ~ (child_budgets[resource] > get_budget(parent[p], resource))

\* can_proceed: "for resource, budget in self.R.budgets.items(): if budget != inf: consumed >= budget"
BudgetExhausted(c) ==
    \E resource \in DOMAIN R[c] :
        /\ R[c][resource] # Inf
        /\ get_consumption(c, resource) >= R[c][resource]

\* TerminationConditions.should_terminate: some condition returns true; one that raises is skipped
should_terminate(outs) == \E i \in DOMAIN outs : outs[i] = "true"

\* SuccessCriteria.evaluate: (is_fulfilled, weighted_sum); a criterion that raises adds nothing
WeightedSum(weights, outs) ==
    SumSeq([i \in DOMAIN weights |-> IF outs[i] = "true" THEN weights[i] ELSE 0])

Phi_score(weights, outs) ==
    IF weights = <<>> THEN EmptyCriteriaScore ELSE WeightedSum(weights, outs)

Phi_fulfilled(weights, outs) ==
    IF weights = <<>> THEN TRUE ELSE WeightedSum(weights, outs) >= threshold

meets_quality_threshold(q) == q >= quality_threshold

Ready(t) == waiting[t] = NoContract
Constructed(c) == state[c] # Unconstructed

\* --------------------------------------------------------------------- Init
ZeroConsumption == [r \in ResourceDimension |-> 0]

\* One contract, as AgentContract(resources, temporal, success_criteria, termination, mode)
\* leaves it; the other contracts are not constructed yet.
InitContracts ==
    /\ \E m \in ContractMode, res \in ExplicitResources, dur \in ExplicitDurations,
          phi \in PhiConfigs, psi \in PsiConfigs :
        /\ mode = [c \in Contracts |-> m]
        /\ R = [c \in Contracts |->
                  IF c = Root THEN apply_mode_defaults_budgets(res, m) ELSE EmptyBudgets]
        /\ duration = [c \in Contracts |->
                  IF c = Root THEN apply_mode_defaults_duration(dur, m) ELSE 0]
        /\ Phi = [c \in Contracts |-> IF c = Root THEN phi ELSE <<>>]
        /\ Psi = [c \in Contracts |-> IF c = Root THEN psi ELSE 0]
        /\ last = ConstructCall(Root, res, dur)
    /\ state = [c \in Contracts |-> IF c = Root THEN "drafted" ELSE Unconstructed]
    /\ parent = [c \in Contracts |-> NoContract]
    /\ start_time = [c \in Contracts |-> 0]
    /\ resource_consumption = [c \in Contracts |-> ZeroConsumption]
    /\ lock = [c \in Contracts |-> 0]
    /\ child_contracts = <<>>
    /\ now = 0
    /\ waiting = [t \in Threads |-> NoContract]

\* ContractAwareExecutor.__init__(contract, max_workers)
default_max_workers == 3

InitExecutor(c, w) ==
    /\ contract = c
    /\ max_workers = w
    /\ phase = "idle"
    /\ tasks = 0
    /\ target_batch_size = 0
    /\ batches = <<>>
    /\ batch_num = 0
    /\ started = 0
    /\ running = {}
    /\ results = <<>>

\* no thread is inside consume_resource; ResourceAwareSelector.__init__ and
\* WorkflowState() leave an empty history and an empty workflow
IdleFrame == [pc |-> "idle", c |-> NoContract, resource |-> "", amount |-> 0, current |-> 0]

InitWorkflow ==
    /\ consume_frame = [t \in Threads |-> IdleFrame]
    /\ selection_history = <<>>
    /\ mgr_tasks = <<>>
    /\ action_history = <<>>

\* ParallelExecutor.__init__(max_workers), before execute_plan_parallel is called
InitParallelExecutor(w) ==
    /\ plan_max_workers = w
    /\ plan_phase = "idle"
    /\ plan_tasks = <<>>
    /\ completed_tasks = {}
    /\ plan_batch = {}
    /\ all_results = <<>>

InitOthers == InitWorkflow /\ InitParallelExecutor(default_max_workers)

Init == InitContracts /\ InitExecutor(NoContract, default_max_workers) /\ InitOthers

\* ------------------------------------------------------------------ actions
\* AgentContract.__init__(resources, temporal, success_criteria, termination, mode, parent_contract)
Construct(t, c, m, p, res, dur, phi, psi) ==
    /\ Ready(t)
    /\ state[c] = Unconstructed
    /\ \A k \in Contracts : k < c => Constructed(k)
    /\ (IF p = NoContract THEN TRUE ELSE Constructed(p))
    /\ state' = [state EXCEPT ![c] = "drafted"]
    /\ mode' = [mode EXCEPT ![c] = m]
    /\ parent' = [parent EXCEPT ![c] = p]
    /\ R' = [R EXCEPT ![c] = apply_mode_defaults_budgets(res, m)]
    /\ duration' = [duration EXCEPT ![c] = apply_mode_defaults_duration(dur, m)]
    /\ start_time' = [start_time EXCEPT ![c] = now]
    /\ resource_consumption' = [resource_consumption EXCEPT ![c] = ZeroConsumption]
    /\ Phi' = [Phi EXCEPT ![c] = phi]
    /\ Psi' = [Psi EXCEPT ![c] = psi]
    /\ last' = ConstructCall(c, res, dur)
    /\ UNCHANGED <<lock, child_contracts, now, waiting>>
    /\ UNCHANGED executor_vars
    /\ UNCHANGED other_vars

\* _set_state takes self._lock (a non-reentrant threading.Lock): a caller finds it free,
\* or waits for it; nothing in the class releases a lock that a waiting holder keeps.
\* a lock that never excludes anybody
LockFree_Unlocked(c) == TRUE

LockFree(c) == lock[c] = 0

Block(t, c, call) ==
    /\ waiting' = [waiting EXCEPT ![t] = c]
    /\ last' = [call EXCEPT !.ok = "blocked"]

\* AgentContract.activate
Activate(t, c) ==
    /\ Ready(t)
    /\ Constructed(c)
    /\ IF state[c] # "drafted"
       THEN /\ last' = Call("activate", c, "false")
            /\ UNCHANGED <<state, start_time, waiting>>
       ELSE IF parent[c] # NoContract /\ ~ check_conservation(parent[c], R[c])
       THEN /\ last' = Call("activate", c, "false")
            /\ UNCHANGED <<state, start_time, waiting>>
       ELSE IF ~ LockFree(c)
       THEN /\ Block(t, c, Call("activate", c, "blocked"))
            /\ UNCHANGED <<state, start_time>>
       ELSE /\ state' = [state EXCEPT ![c] = "active"]
            /\ start_time' = [start_time EXCEPT ![c] = now]
            /\ last' = Call("activate", c, "true")
            /\ UNCHANGED waiting
    /\ UNCHANGED <<mode, parent, R, duration, resource_consumption, Phi, Psi, lock,
                   child_contracts, now>>
    /\ UNCHANGED executor_vars
    /\ UNCHANGED other_vars

ConsumeCall(c, resource, amount, ok) ==
    [Call("consume", c, ok) EXCEPT !.dim = resource, !.amount = amount]

\* AgentContract.consume_resource: the body runs under self._lock; the over-budget branch
\* calls _set_state, which takes self._lock again while the caller still holds it.
ConsumeResource(t, c, resource, amount) ==
    /\ Ready(t)
    /\ Constructed(c)
    /\ get_budget(c, resource) = Inf => get_consumption(c, resource) + amount <= MaxUnbudgeted
    /\ IF ~ LockFree(c)
       THEN /\ Block(t, c, ConsumeCall(c, resource, amount, "blocked"))
            /\ UNCHANGED <<resource_consumption, lock>>
       ELSE IF state[c] # "active"
       THEN /\ last' = ConsumeCall(c, resource, amount, "false")
            /\ UNCHANGED <<resource_consumption, lock, waiting>>
       ELSE IF get_consumption(c, resource) + amount > get_budget(c, resource)
       THEN /\ lock' = [lock EXCEPT ![c] = t]
            /\ Block(t, c, ConsumeCall(c, resource, amount, "blocked"))
            /\ UNCHANGED resource_consumption
       ELSE /\ resource_consumption' =
                  [resource_consumption EXCEPT ![c][resource] = @ + amount]
            /\ last' = ConsumeCall(c, resource, amount, "true")
            /\ UNCHANGED <<lock, waiting>>
    /\ UNCHANGED <<state, mode, parent, R, duration, start_time, Phi, Psi,
                   child_contracts, now>>
    /\ UNCHANGED executor_vars
    /\ UNCHANGED other_vars

\* AgentContract.can_proceed; outs are the values the termination conditions return
CanProceedTarget(c, outs) ==
    IF is_expired(c) THEN "expired"
    ELSE IF BudgetExhausted(c) THEN "violated"
    ELSE IF should_terminate(outs) THEN "terminated"
    ELSE "active"

CanProceedCall(c, outs, ok) == [Call("can_proceed", c, ok) EXCEPT !.outs = outs]

CanProceed(t, c, outs) ==
    /\ Ready(t)
    /\ Constructed(c)
    /\ DOMAIN outs = 1..Psi[c]
    /\ IF state[c] # "active"
       THEN /\ last' = CanProceedCall(c, outs, "false")
            /\ UNCHANGED <<state, waiting>>
       ELSE IF CanProceedTarget(c, outs) = "active"
       THEN /\ last' = CanProceedCall(c, outs, "true")
            /\ UNCHANGED <<state, waiting>>
       ELSE IF ~ LockFree(c)
       THEN /\ Block(t, c, CanProceedCall(c, outs, "blocked"))
            /\ UNCHANGED state
       ELSE /\ state' = [state EXCEPT ![c] = CanProceedTarget(c, outs)]
            /\ last' = CanProceedCall(c, outs, "false")
            /\ UNCHANGED waiting
    /\ UNCHANGED <<mode, parent, R, duration, start_time, resource_consumption, Phi, Psi,
                   lock, child_contracts, now>>
    /\ UNCHANGED executor_vars
    /\ UNCHANGED other_vars

\* AgentContract.evaluate_success; outs are the values the success criteria return
EvaluateScore(c, q, outs) ==
    IF ~ meets_quality_threshold(q) THEN 0 ELSE Phi_score(Phi[c], outs)

EvaluateFulfilled(c, q, outs) ==
    meets_quality_threshold(q) /\ Phi_fulfilled(Phi[c], outs)

EvaluateCall(c, q, outs, ok) ==
    [Call("evaluate_success", c, ok) EXCEPT
        !.score = EvaluateScore(c, q, outs), !.quality = q, !.outs = outs]

EvaluateSuccess(t, c, q, outs) ==
    /\ Ready(t)
    /\ Constructed(c)
    /\ DOMAIN outs = 1..Len(Phi[c])
    /\ IF ~ EvaluateFulfilled(c, q, outs)
       THEN /\ last' = EvaluateCall(c, q, outs, "false")
            /\ UNCHANGED <<state, waiting>>
       ELSE IF ~ LockFree(c)
       THEN /\ Block(t, c, [EvaluateCall(c, q, outs, "blocked") EXCEPT !.score = 0])
            /\ UNCHANGED state
       ELSE /\ state' = [state EXCEPT ![c] = "fulfilled"]
            /\ last' = EvaluateCall(c, q, outs, "true")
            /\ UNCHANGED waiting
    /\ UNCHANGED <<mode, parent, R, duration, start_time, resource_consumption, Phi, Psi,
                   lock, child_contracts, now>>
    /\ UNCHANGED executor_vars
    /\ UNCHANGED other_vars

\* AgentContract.terminate
Terminate(t, c) ==
    /\ Ready(t)
    /\ Constructed(c)
    /\ IF ~ LockFree(c)
       THEN /\ Block(t, c, Call("terminate", c, "blocked"))
            /\ UNCHANGED state
       ELSE /\ state' = [state EXCEPT ![c] = "terminated"]
            /\ last' = Call("terminate", c, "none")
            /\ UNCHANGED waiting
    /\ UNCHANGED <<mode, parent, R, duration, start_time, resource_consumption, Phi, Psi,
                   lock, child_contracts, now>>
    /\ UNCHANGED executor_vars
    /\ UNCHANGED other_vars

\* contract.R.set_budget(resource, budget)
SetBudget(t, c, resource, budget) ==
    /\ Ready(t)
    /\ Constructed(c)
    /\ R' = [R EXCEPT ![c] = set_budget(@, resource, budget)]
    /\ last' = [Call("set_budget", c, "none") EXCEPT !.dim = resource, !.amount = budget]
    /\ UNCHANGED <<state, mode, parent, duration, start_time, resource_consumption,
                   Phi, Psi, lock, child_contracts, now, waiting>>
    /\ UNCHANGED executor_vars
    /\ UNCHANGED other_vars

\* ------------------------------------------------------ ConservationEnforcer
\* allocate_child_budget(allocation_strategy, reserve_buffer): the three strategies compute
\* the same value.  reserve_buffer is in percent (0.15 -> 15) and the float
\* (parent_budget - parent_budget * reserve_buffer) / n_children is kept as the exact
\* fraction num/den.
allocate_child_budget(allocation_strategy, reserve_buffer) ==
    [resource \in ResourceDimension |->
        LET parent_budget == get_budget(Root, resource)
            n_children == Max(1, Len(child_contracts) + 1)
        IN  IF parent_budget = Inf
            THEN [num |-> Inf, den |-> 1]
            ELSE [num |-> parent_budget * (100 - reserve_buffer), den |-> 100 * n_children]]

default_reserve_buffer == 15

\* enforcer.allocate_child_budget(allocation_strategy, reserve_buffer), called directly
AllocateChildBudget(t, allocation_strategy, reserve_buffer) ==
    /\ Ready(t)
    /\ last' = [Call("allocate_child_budget", Root, "none") EXCEPT
                    !.reserve = reserve_buffer,
                    !.alloc = allocate_child_budget(allocation_strategy, reserve_buffer)]
    /\ UNCHANGED <<state, mode, parent, R, duration, start_time, resource_consumption,
                   Phi, Psi, lock, child_contracts, now, waiting>>
    /\ UNCHANGED executor_vars
    /\ UNCHANGED other_vars

\* create_child_contract(mode): allocate_child_budget() is computed, then
\* AgentContract(mode=mode, parent=self.root) is called; __init__ has no parameter named
\* parent (it is parent_contract), so the call raises TypeError before a child exists:
\* nothing is constructed, budgeted or appended to child_contracts.
CreateChildContract(t, m) ==
    /\ Ready(t)
    /\ allocate_child_budget("equal", default_reserve_buffer) \in
            [ResourceDimension -> [num : Nat, den : Nat]]
    /\ last' = Call("create_child_contract", NoContract, "TypeError")
    /\ UNCHANGED <<state, mode, parent, R, duration, start_time, resource_consumption,
                   Phi, Psi, lock, child_contracts, now, waiting>>
    /\ UNCHANGED executor_vars
    /\ UNCHANGED other_vars

RECURSIVE ChildrenConsumed(_, _)
ChildrenConsumed(children, resource) ==
    IF children = <<>> THEN 0
    ELSE get_consumption(Head(children), resource) + ChildrenConsumed(Tail(children), resource)

\* the root's own consumption left out of the total
total_consumption_ChildrenOnly(resource) ==
    ChildrenConsumed(child_contracts, resource)

\* verify_conservation(): children's consumption plus the root's, against the root budgets
total_consumption(resource) ==
    ChildrenConsumed(child_contracts, resource) + get_consumption(Root, resource)

verify_conservation ==
    \A resource \in ResourceDimension :
        ~ (get_budget(Root, resource) # Inf /\ total_consumption(resource) > get_budget(Root, resource))

\* enforcer.verify_conservation(): reads only, takes no lock
VerifyConservation(t) ==
    /\ Ready(t)
    /\ last' = Call("verify_conservation", Root, IF verify_conservation THEN "true" ELSE "false")
    /\ UNCHANGED <<state, mode, parent, R, duration, start_time, resource_consumption,
                   Phi, Psi, lock, child_contracts, now, waiting>>
    /\ UNCHANGED executor_vars
    /\ UNCHANGED other_vars

\* time.time() advances
Tick(dt) ==
    /\ now + dt <= MaxTime
    /\ now' = now + dt
    /\ last' = Call("tick", NoContract, "none")
    /\ UNCHANGED <<state, mode, parent, R, duration, start_time, resource_consumption,
                   Phi, Psi, lock, child_contracts, waiting>>
    /\ UNCHANGED executor_vars
    /\ UNCHANGED other_vars

AllocationStrategies == { "equal", "negotiated" }
ReserveBuffers == { 0, default_reserve_buffer }

OutcomeSeqs == UNION { [1..n -> Outcomes] : n \in 0..2 }

\* The calls of the contract API on one contract
ContractCall(t, c) ==
    \/ Activate(t, c)
    \/ \E inp \in ConsumeInputs : ConsumeResource(t, c, inp[1], inp[2])
    \/ \E outs \in OutcomeSeqs : CanProceed(t, c, outs)
    \/ \E q \in Qualities, outs \in OutcomeSeqs : EvaluateSuccess(t, c, q, outs)
    \/ Terminate(t, c)
    \/ \E inp \in SetBudgetInputs : SetBudget(t, c, inp[1], inp[2])

\* One contract and its enforcer under concurrent callers
Next ==
    \/ \E t \in Threads : ContractCall(t, Root)
    \/ \E t \in Threads, m \in ContractMode : CreateChildContract(t, m)
    \/ \E dt \in TickSteps : Tick(dt)

Spec == Init /\ [][Next]_vars

\* Contracts constructed with or without a parent, budgeted and activated
InitHierarchy == Init /\ Phi[Root] = <<>> /\ Psi[Root] = 0

NextHierarchy ==
    \/ \E t \in Threads, c \in Contracts, m \in ContractMode, p \in {NoContract} \cup Contracts,
          res \in ExplicitResources, dur \in ExplicitDurations :
            Construct(t, c, m, p, res, dur, <<>>, 0)
    \/ \E t \in Threads, c \in Contracts : Activate(t, c)
    \/ \E t \in Threads, c \in Contracts, inp \in SetBudgetInputs :
            SetBudget(t, c, inp[1], inp[2])

SpecHierarchy == InitHierarchy /\ [][NextHierarchy]_vars

\* The enforcer of a root contract that its owner budgets, activates and consumes from
InitEnforcer == Init /\ Phi[Root] = <<>> /\ Psi[Root] = 0

NextEnforcer ==
    \/ \E t \in Threads : Activate(t, Root)
    \/ \E t \in Threads, inp \in ConsumeInputs : ConsumeResource(t, Root, inp[1], inp[2])
    \/ \E t \in Threads, inp \in SetBudgetInputs : SetBudget(t, Root, inp[1], inp[2])
    \/ \E t \in Threads, m \in ContractMode : CreateChildContract(t, m)
    \/ \E t \in Threads, strategy \in AllocationStrategies, rb \in ReserveBuffers :
            AllocateChildBudget(t, strategy, rb)
    \/ \E t \in Threads : VerifyConservation(t)

SpecEnforcer == InitEnforcer /\ [][NextEnforcer]_vars

\* ---------------------------------------------------- ContractAwareExecutor
Min(a, b) == IF a <= b THEN a ELSE b

\* get_max_utilization() > tenths / 10: the largest consumed / budget over the dimensions
\* with a finite budget (0.0 if there is none)
max_utilization_above(c, tenths) ==
    \E resource \in ResourceDimension :
        /\ get_budget(c, resource) # Inf
        /\ get_consumption(c, resource) * 10 > tenths * get_budget(c, resource)

\* _plan_contract_aware_batches: the local target_batch_size; the loop never reads it
plan_target_batch_size ==
    IF max_utilization_above(contract, 8) THEN 1
    ELSE IF max_utilization_above(contract, 5) THEN 2
    ELSE Min(max_workers, 3)

\* _can_add_to_batch(batch, estimate); proceed is what self.contract.can_proceed() returns
can_add_to_batch(batch, proceed) ==
    IF Len(batch) >= max_workers THEN FALSE ELSE proceed

\* the loop "for task in tasks" of _plan_contract_aware_batches and its last batch
RECURSIVE plan_batches(_, _, _, _, _)
plan_batches(task, n, planned, current_batch, proceed) ==
    IF task > n
    THEN IF current_batch # <<>> THEN Append(planned, current_batch) ELSE planned
    ELSE IF can_add_to_batch(current_batch, proceed)
    THEN plan_batches(task + 1, n, planned, Append(current_batch, task), proceed)
    ELSE plan_batches(task + 1, n,
                      IF current_batch # <<>> THEN Append(planned, current_batch) ELSE planned,
                      <<task>>, proceed)

\* an execute_batch that takes the simple path whatever self.contract is
simple_parallel_Always == TRUE

\* execute_batch: "if not self.contract: return self._execute_simple_parallel(...)"
simple_parallel == contract = NoContract

\* execute_batch(tasks) with a contract.  The batches are planned once, before any batch
\* runs; the first can_proceed() of the planning may move the contract out of ACTIVE (or
\* wait for its lock), and then every later one returns false.  The loop over the batches
\* starts with _allocate_batch_contracts, whose first create_child_contract() raises
\* TypeError, which nothing in execute_batch catches; without tasks there is no batch and
\* the call returns [].
ExecuteBatchContract(t, n) ==
    /\ Ready(t)
    /\ phase = "idle"
    /\ ~ simple_parallel
    /\ LET c == contract
           outs == [i \in 1..Psi[c] |-> "false"]
           target == CanProceedTarget(c, outs)
           proceed == state[c] = "active" /\ target = "active"
           leaves == n >= 1 /\ state[c] = "active" /\ target # "active"
           planned == plan_batches(1, n, <<>>, <<>>, proceed)
       IN  /\ tasks' = n
           /\ target_batch_size' = plan_target_batch_size
           /\ IF leaves /\ ~ LockFree(c)
              THEN /\ Block(t, c, Call("execute_batch", c, "blocked"))
                   /\ phase' = "blocked"
                   /\ UNCHANGED <<state, batches>>
              ELSE /\ state' = IF leaves THEN [state EXCEPT ![c] = target] ELSE state
                   /\ batches' = planned
                   /\ phase' = IF planned = <<>> THEN "returned" ELSE "raised"
                   /\ last' = Call("execute_batch", c,
                                   IF planned = <<>> THEN "returned" ELSE "TypeError")
                   /\ UNCHANGED waiting
    /\ UNCHANGED <<mode, parent, R, duration, start_time, resource_consumption, Phi, Psi,
                   lock, child_contracts, now>>
    /\ UNCHANGED <<contract, max_workers, batch_num, started, running, results>>
    /\ UNCHANGED other_vars

\* the pool of the other path's _execute_batch_with_contracts: one worker per item
pool_size_PerBatch == tasks

\* _execute_simple_parallel: ThreadPoolExecutor(max_workers=self.max_workers)
pool_size == max_workers

\* execute_batch(tasks) without a contract: every task is submitted to one pool
ExecuteBatchSimple(t, n) ==
    /\ Ready(t)
    /\ phase = "idle"
    /\ simple_parallel
    /\ tasks' = n
    /\ phase' = IF n = 0 THEN "returned" ELSE "pool"
    /\ last' = Call("execute_batch", contract, IF n = 0 THEN "returned" ELSE "submitted")
    /\ UNCHANGED <<state, mode, parent, R, duration, start_time, resource_consumption,
                   Phi, Psi, lock, child_contracts, now, waiting>>
    /\ UNCHANGED <<contract, max_workers, target_batch_size, batches, batch_num,
                   started, running, results>>
    /\ UNCHANGED other_vars

\* a pool that hands the item it handed out last to the next free worker again
next_submitted_Again == Max(1, started)

\* the futures are submitted once each, in the order of tasks, and a free worker takes
\* the first one not yet taken
next_submitted == started + 1

\* a free pool worker takes the next submitted item and calls _execute_single_task
StartTask ==
    /\ phase = "pool"
    /\ started < tasks
    /\ Cardinality(running) < pool_size
    /\ started' = started + 1
    /\ running' = running \cup {next_submitted}
    /\ last' = [Call("start_task", NoContract, "none") EXCEPT !.amount = next_submitted]
    /\ UNCHANGED <<state, mode, parent, R, duration, start_time, resource_consumption,
                   Phi, Psi, lock, child_contracts, now, waiting>>
    /\ UNCHANGED <<contract, max_workers, phase, tasks, target_batch_size, batches,
                   batch_num, results>>
    /\ UNCHANGED other_vars

\* TaskResult of _execute_single_task: success unless run_agent raised
TaskResult(task, outcome) ==
    [task |-> task, success |-> outcome # "raise",
     error |-> IF outcome = "raise" THEN "exception" ELSE "", contract |-> NoContract]

\* _execute_single_task returns and as_completed hands its result to the collecting loop;
\* with the last result the pool is left and execute_batch returns the list
FinishTask(task, outcome) ==
    /\ phase = "pool"
    /\ task \in running
    /\ running' = running \ {task}
    /\ results' = Append(results, TaskResult(task, outcome))
    /\ phase' = IF Len(results) + 1 = tasks THEN "returned" ELSE "pool"
    /\ last' = [Call("finish_task", NoContract, IF outcome = "raise" THEN "false" ELSE "true")
                    EXCEPT !.amount = task]
    /\ UNCHANGED <<state, mode, parent, R, duration, start_time, resource_consumption,
                   Phi, Psi, lock, child_contracts, now, waiting>>
    /\ UNCHANGED <<contract, max_workers, tasks, target_batch_size, batches,
                   batch_num, started>>
    /\ UNCHANGED other_vars

BatchConsumeInputs == { <<"tokens", 30000>> }
RunAgentOutcomes == { "output", "raise" }

\* execute_batch under a root contract that its owner activates and consumes from
InitBatch ==
    /\ InitContracts /\ Phi[Root] = <<>> /\ Psi[Root] = 0
    /\ \E w \in 1..MaxWorkers : InitExecutor(Root, w)
    /\ InitOthers

NextBatch ==
    \/ \E t \in Threads : Activate(t, Root)
    \/ \E t \in Threads, inp \in BatchConsumeInputs : ConsumeResource(t, Root, inp[1], inp[2])
    \/ \E dt \in TickSteps : Tick(dt)
    \/ \E t \in Threads, n \in 0..MaxTasks : ExecuteBatchContract(t, n)

SpecBatch == InitBatch /\ [][NextBatch]_vars

\* execute_batch of an executor without a contract
InitPool ==
    /\ InitContracts /\ Phi[Root] = <<>> /\ Psi[Root] = 0
    /\ \E w \in 1..MaxWorkers : InitExecutor(NoContract, w)
    /\ InitOthers

NextPool ==
    \/ \E t \in Threads, n \in 0..MaxTasks : ExecuteBatchSimple(t, n)
    \/ StartTask
    \/ \E task \in 1..MaxTasks, outcome \in RunAgentOutcomes : FinishTask(task, outcome)

SpecPool == InitPool /\ [][NextPool]_vars

\* execute_batch of an executor built with or without a root contract, whose owner
\* activates or terminates the root
InitExecutorAny ==
    /\ InitContracts /\ Phi[Root] = <<>> /\ Psi[Root] = 0
    /\ \E c \in {NoContract, Root}, w \in 1..MaxWorkers : InitExecutor(c, w)
    /\ InitOthers

NextExecutor ==
    \/ Activate(Owner, Root)
    \/ Terminate(Owner, Root)
    \/ \E n \in 0..MaxTasks : ExecuteBatchSimple(Owner, n)
    \/ \E n \in 0..MaxTasks : ExecuteBatchContract(Owner, n)
    \/ StartTask
    \/ \E task \in 1..MaxTasks, outcome \in RunAgentOutcomes : FinishTask(task, outcome)

SpecExecutor == InitExecutorAny /\ [][NextExecutor]_vars

\* ---------------------------------------------------- ResourceAwareSelector
SPEED_RANKING_ByCost == <<"qwen", "crush", "opencode", "gemini", "claude">>

SPEED_RANKING == <<"qwen", "claude", "crush", "gemini", "opencode">>
COST_RANKING == <<"qwen", "crush", "opencode", "gemini", "claude">>
QUALITY_RANKING == <<"claude", "gemini", "qwen", "crush", "opencode">>
EFFICIENCY_RANKING == <<"qwen", "crush", "opencode", "gemini", "claude">>

\* AGENT_REGISTRY in insertion order: name, osa_roles, priority
AGENT_REGISTRY ==
    << [name |-> "qwen", osa_roles |-> {"coder", "qa"}, priority |-> 1],
       [name |-> "gemini", osa_roles |-> {"orchestrator", "architect"}, priority |-> 2],
       [name |-> "crush", osa_roles |-> {"security", "qa"}, priority |-> 3],
       [name |-> "claude", osa_roles |-> {"architect", "qa"}, priority |-> 4],
       [name |-> "opencode", osa_roles |-> {"security"}, priority |-> 5],
       [name |-> "mini", osa_roles |-> {"coder", "qa"}, priority |-> 6] >>

InList(x, list) == \E i \in DOMAIN list : list[i] = x

\* _select_by_speed/_efficiency/_cost/_quality: the first agent of the ranking that is
\* available, else available[0], else "claude"
RECURSIVE select_by(_, _)
select_by(ranking, available) ==
    IF ranking = <<>>
    THEN IF available # <<>> THEN available[1] ELSE "claude"
    ELSE IF InList(Head(ranking), available) THEN Head(ranking)
    ELSE select_by(Tail(ranking), available)

\* get_agent_for_role: the candidate of lowest priority value among the available agents
\* that support the role, else the first available agent
get_agent_for_role(role, available) ==
    LET avail == IF available # <<>> THEN available
                 ELSE [i \in DOMAIN AGENT_REGISTRY |-> AGENT_REGISTRY[i].name]
        candidates == { i \in DOMAIN AGENT_REGISTRY :
                            /\ InList(AGENT_REGISTRY[i].name, avail)
                            /\ role \in AGENT_REGISTRY[i].osa_roles }
    IN  IF candidates = {} THEN avail[1]
        ELSE AGENT_REGISTRY[CHOOSE i \in candidates :
                \A j \in candidates :
                    AGENT_REGISTRY[i].priority <= AGENT_REGISTRY[j].priority].name

\* get_max_utilization() < tenths / 10
max_utilization_below(c, tenths) ==
    \A resource \in ResourceDimension :
        get_budget(c, resource) # Inf =>
            get_consumption(c, resource) * 10 < tenths * get_budget(c, resource)

\* select_agent: the branch taken, as <<agent, reason>>
select_agent(c, available, role) ==
    IF mode[c] = "urgent" THEN <<select_by(SPEED_RANKING, available), "urgent">>
    ELSE IF time_remaining(c) < 30
    THEN <<select_by(SPEED_RANKING, available), "time_constraint">>
    ELSE IF max_utilization_above(c, 8)
    THEN <<select_by(EFFICIENCY_RANKING, available), "resource_constraint">>
    ELSE IF max_utilization_above(c, 5)
    THEN <<select_by(COST_RANKING, available), "balanced">>
    ELSE IF max_utilization_below(c, 5)
    THEN <<select_by(QUALITY_RANKING, available), "quality">>
    ELSE <<get_agent_for_role(role, available), "default">>

\* ResourceAwareSelector(Root).select_agent(task, available_agents, role_override);
\* _track_selection appends the entry (its agent and reason are kept)
SelectAgent(available, role) ==
    /\ Len(selection_history) < MaxSelections
    /\ LET choice == select_agent(Root, available, role)
       IN  /\ selection_history' =
                  Append(selection_history,
                         [agent |-> choice[1], reason |-> choice[2]])
           /\ last' = [Call("select_agent", Root, choice[1]) EXCEPT !.available = available]
    /\ UNCHANGED <<state, mode, parent, R, duration, start_time, resource_consumption,
                   Phi, Psi, lock, child_contracts, now, waiting>>
    /\ UNCHANGED executor_vars
    /\ UNCHANGED <<consume_frame, mgr_tasks, action_history, plan_vars>>

AvailableLists ==
    { <<"qwen", "claude", "gemini">>, <<"claude", "gemini">>,
      <<"gemini", "opencode", "crush">>, <<"mini">> }
OSARoles == { "coder", "architect", "security" }
SelectorConsumeInputs == { <<"tokens", 30000>>, <<"tokens", 50000>> }

\* A selector over a root contract that its owner activates and consumes from
InitSelector == Init /\ Phi[Root] = <<>> /\ Psi[Root] = 0


NextSelector ==
    \/ Activate(Owner, Root)
    \/ \E inp \in SelectorConsumeInputs : ConsumeResource(Owner, Root, inp[1], inp[2])
    \/ \E dt \in TickSteps : Tick(dt)
    \/ \E available \in AvailableLists, role \in OSARoles : SelectAgent(available, role)

SpecSelector == InitSelector /\ [][NextSelector]_vars

\* ------------------------------------- consume_resource, statement by statement
\* The interleavings of concurrent consume_resource calls: a thread enters the call,
\* takes self._lock when it is free, reads the state and the current consumption, and
\* then compares with the budget and writes.  consume_frame[t] holds the thread's
\* position and locals.
ConsumeFrame ==
    UNCHANGED <<mode, parent, R, duration, start_time, Phi, Psi, child_contracts, now,
                selection_history, mgr_tasks, action_history, plan_vars>>

\* consume_resource(resource, amount) is called
ConsumeEnter(t, c, resource, amount) ==
    /\ Ready(t)
    /\ Constructed(c)
    /\ consume_frame[t].pc = "idle"
    /\ consume_frame' = [consume_frame EXCEPT ![t] =
            [pc |-> "acquire", c |-> c, resource |-> resource, amount |-> amount,
             current |-> 0]]
    /\ UNCHANGED <<state, resource_consumption, lock, waiting, last>>
    /\ ConsumeFrame
    /\ UNCHANGED executor_vars

\* with self._lock:
ConsumeAcquire(t) ==
    /\ Ready(t)
    /\ consume_frame[t].pc = "acquire"
    /\ LockFree(consume_frame[t].c)
    /\ lock' = [lock EXCEPT ![consume_frame[t].c] = t]
    /\ consume_frame' = [consume_frame EXCEPT ![t].pc = "locked"]
    /\ UNCHANGED <<state, resource_consumption, waiting, last>>
    /\ ConsumeFrame
    /\ UNCHANGED executor_vars

\* if self.state != ContractState.ACTIVE: return False
\* current = self._resource_consumption.get(resource, 0.0)
ConsumeRead(t) ==
    /\ Ready(t)
    /\ consume_frame[t].pc = "locked"
    /\ LET f == consume_frame[t]
       IN IF state[f.c] # "active"
          THEN /\ lock' = [lock EXCEPT ![f.c] = 0]
               /\ consume_frame' = [consume_frame EXCEPT ![t] = IdleFrame]
               /\ last' = ConsumeCall(f.c, f.resource, f.amount, "false")
          ELSE /\ consume_frame' = [consume_frame EXCEPT
                                        ![t].pc = "write",
                                        ![t].current = get_consumption(f.c, f.resource)]
               /\ UNCHANGED <<lock, last>>
    /\ UNCHANGED <<state, resource_consumption, waiting>>
    /\ ConsumeFrame
    /\ UNCHANGED executor_vars

\* budget = self.R.get_budget(resource)
\* if current + amount > budget: self._set_state(VIOLATED); return False
\* self._resource_consumption[resource] = current + amount; return True
ConsumeWrite(t) ==
    /\ Ready(t)
    /\ consume_frame[t].pc = "write"
    /\ LET f == consume_frame[t]
       IN IF f.current + f.amount > get_budget(f.c, f.resource)
          THEN IF ~ LockFree(f.c)
               THEN /\ Block(t, f.c, ConsumeCall(f.c, f.resource, f.amount, "blocked"))
                    /\ consume_frame' = [consume_frame EXCEPT ![t].pc = "set_state"]
                    /\ UNCHANGED <<state, resource_consumption, lock>>
               ELSE /\ state' = [state EXCEPT ![f.c] = "violated"]
                    /\ lock' = [lock EXCEPT ![f.c] = 0]
                    /\ consume_frame' = [consume_frame EXCEPT ![t] = IdleFrame]
                    /\ last' = ConsumeCall(f.c, f.resource, f.amount, "false")
                    /\ UNCHANGED <<resource_consumption, waiting>>
          ELSE /\ resource_consumption' =
                     [resource_consumption EXCEPT ![f.c][f.resource] = f.current + f.amount]
               /\ lock' = [lock EXCEPT ![f.c] = 0]
               /\ consume_frame' = [consume_frame EXCEPT ![t] = IdleFrame]
               /\ last' = ConsumeCall(f.c, f.resource, f.amount, "true")
               /\ UNCHANGED <<state, waiting>>
    /\ ConsumeFrame
    /\ UNCHANGED executor_vars

ConcurrentConsumeInputs == { <<"tokens", 30000>>, <<"tokens", 50000>> }

InitConsume == Init /\ Phi[Root] = <<>> /\ Psi[Root] = 0

\* activate() runs _set_state once self._lock is free
NextConsume ==
    \/ LockFree(Root) /\ Activate(Owner, Root)
    \/ \E t \in Threads, inp \in ConcurrentConsumeInputs :
          ConsumeEnter(t, Root, inp[1], inp[2])
    \/ \E t \in Threads : ConsumeAcquire(t)
    \/ \E t \in Threads : ConsumeRead(t)
    \/ \E t \in Threads : ConsumeWrite(t)

SpecConsume == InitConsume /\ [][NextConsume]_vars

\* ------------------------------------------- ParallelExecutor (yolo_loop.py)
\* A plan is its task lines in order: "done" for "- [x]", otherwise what
\* _detect_dependencies finds: "independent" (no keyword) or "previous" (a dependency
\* keyword; a leading "1." gives "sequential", which find_executable_batch treats alike).
\* The description of a task is its position in the plan.
PlanLines == { "done", "independent", "previous" }
Plans == UNION { [1..n -> PlanLines] : n \in 0..MaxPlanTasks }

\* parse_plan_tasks(plan_content): the tasks that are not completed, in order
RECURSIVE parse_plan_tasks(_, _)
parse_plan_tasks(plan, idx) ==
    IF idx > Len(plan) THEN <<>>
    ELSE IF plan[idx] = "done" THEN parse_plan_tasks(plan, idx + 1)
    ELSE <<[description |-> idx,
            dependencies |-> IF plan[idx] = "previous" THEN {"previous"} ELSE {}]>>
         \o parse_plan_tasks(plan, idx + 1)

\* find_executable_batch(tasks, completed)
RECURSIVE find_executable_batch(_, _)
find_executable_batch(task_list, completed) ==
    IF task_list = <<>> THEN <<>>
    ELSE LET task == Head(task_list)
             can_execute ==
                 IF "previous" \in task.dependencies \/ "sequential" \in task.dependencies
                 THEN completed # {}
                 ELSE TRUE
         IN  (IF can_execute THEN <<task>> ELSE <<>>)
             \o find_executable_batch(Tail(task_list), completed)

\* executable_batch[:self.max_workers]
FirstN(list, n) == [i \in 1..Min(Len(list), n) |-> list[i]]

PlanFrame ==
    /\ UNCHANGED <<state, mode, parent, R, duration, start_time, resource_consumption,
                   Phi, Psi, lock, child_contracts, now, waiting>>
    /\ UNCHANGED executor_vars
    /\ UNCHANGED <<consume_frame, selection_history, mgr_tasks, action_history,
                   plan_max_workers>>

\* execute_plan_parallel(plan_content, ...) up to its loop: without pending tasks it
\* returns []
ExecutePlanParallel(plan) ==
    /\ plan_phase = "idle"
    /\ plan_tasks' = parse_plan_tasks(plan, 1)
    /\ plan_phase' = IF parse_plan_tasks(plan, 1) = <<>> THEN "returned" ELSE "head"
    /\ last' = Call("execute_plan_parallel", NoContract,
                    IF parse_plan_tasks(plan, 1) = <<>> THEN "returned" ELSE "submitted")
    /\ UNCHANGED <<completed_tasks, plan_batch, all_results>>
    /\ PlanFrame

\* the head of "while tasks": the executable batch is found and submitted to a pool of
\* len(batch) workers, or the loop is left by break
PlanLoopHead ==
    /\ plan_phase = "head"
    /\ LET executable_batch == find_executable_batch(plan_tasks, completed_tasks)
           batch == FirstN(executable_batch, plan_max_workers)
       IN  IF executable_batch = <<>>
           THEN /\ plan_phase' = "returned"
                /\ last' = Call("plan_loop", NoContract, "returned")
                /\ UNCHANGED plan_batch
           ELSE /\ plan_phase' = "batch"
                /\ plan_batch' = { batch[i].description : i \in DOMAIN batch }
                /\ last' = Call("plan_loop", NoContract, "submitted")
    /\ UNCHANGED <<plan_tasks, completed_tasks, all_results>>
    /\ PlanFrame

\* execute_task_parallel in a worker: detect_role returns a str (a key of OSA_ROLES or
\* "coder"), and the print of detected_role.value.upper(), which comes before the try
\* block and before run_agent, raises AttributeError; the future holds the exception
ExecuteTaskParallel(task) ==
    /\ plan_phase = "batch"
    /\ task \in plan_batch
    /\ plan_batch' = plan_batch \ {task}
    /\ last' = [Call("execute_task_parallel", NoContract, "AttributeError")
                    EXCEPT !.amount = task]
    /\ UNCHANGED <<plan_phase, plan_tasks, completed_tasks, all_results>>
    /\ PlanFrame

\* "result = future.result()" raises the worker's exception for the first future that
\* as_completed yields; leaving the with block waits for the other workers, and the
\* exception leaves execute_plan_parallel
PlanRaise ==
    /\ plan_phase = "batch"
    /\ plan_batch = {}
    /\ plan_phase' = "raised"
    /\ last' = Call("execute_plan_parallel", NoContract, "AttributeError")
    /\ UNCHANGED <<plan_tasks, completed_tasks, plan_batch, all_results>>
    /\ PlanFrame

InitPlan ==
    /\ InitContracts /\ mode[Root] = "balanced"
    /\ Phi[Root] = <<>> /\ Psi[Root] = 0
    /\ InitExecutor(NoContract, default_max_workers)
    /\ InitWorkflow
    /\ \E w \in 1..MaxWorkers : InitParallelExecutor(w)

NextPlan ==
    \/ \E plan \in Plans : ExecutePlanParallel(plan)
    \/ PlanLoopHead
    \/ \E task \in 1..MaxPlanTasks : ExecuteTaskParallel(task)
    \/ PlanRaise

SpecPlan == InitPlan /\ [][NextPlan]_vars

\* ---------------------------------------------------------- OSAManagerAgent
\* state.tasks is a dict: mgr_tasks holds its values in insertion order
has_key(task_dict, task_id) == \E i \in DOMAIN task_dict : task_dict[i].id = task_id

key_index(task_dict, task_id) == CHOOSE i \in DOMAIN task_dict : task_dict[i].id = task_id

has_task(task_id) == has_key(mgr_tasks, task_id)

task_index(task_id) == key_index(mgr_tasks, task_id)

\* f"task_{len(self.state.tasks) + 1}_{int(time.time())}"
task_id_in(task_dict) == <<Len(task_dict) + 1, now>>

new_task_id == task_id_in(mgr_tasks)

UnknownTask == <<0, 0>>

\* self.state.tasks[task_id] = task: a new key is appended, an existing key keeps its place
put_in(task_dict, task) ==
    IF has_key(task_dict, task.id)
    THEN [task_dict EXCEPT ![key_index(task_dict, task.id)] = task]
    ELSE Append(task_dict, task)

put_task(task) == put_in(mgr_tasks, task)

\* Task(id, name, description, status="pending", dependencies=dependencies or [])
new_task(task_id, dependencies) ==
    [id |-> task_id, status |-> "pending", assigned_to |-> "", dependencies |-> dependencies]

\* _log_action(action, details)
log_action(action) == Append(action_history, action)

ManagerFrame ==
    UNCHANGED <<state, mode, parent, R, duration, start_time, resource_consumption,
                Phi, Psi, lock, child_contracts, now, waiting,
                consume_frame, selection_history, plan_vars>>

\* _create_task(name, description, est_hrs, dependencies)
CreateTask(dependencies) ==
    /\ Len(action_history) < MaxActions
    /\ mgr_tasks' = put_task(new_task(new_task_id, dependencies))
    /\ action_history' = log_action("create_task")
    /\ last' = [Call("create_task", NoContract, "returned") EXCEPT !.task_id = new_task_id]
    /\ ManagerFrame
    /\ UNCHANGED executor_vars

\* agent_id in self.state.agents (the keys of AGENT_REGISTRY)
has_agent(agent_id) == \E i \in DOMAIN AGENT_REGISTRY : AGENT_REGISTRY[i].name = agent_id

\* the body of _assign_task on a dict of tasks: both error branches and the success log
assign_in(task_dict, task_id, agent_id) ==
    IF has_key(task_dict, task_id) /\ has_agent(agent_id)
    THEN [task_dict EXCEPT ![key_index(task_dict, task_id)].assigned_to = agent_id,
                           ![key_index(task_dict, task_id)].status = "in_progress"]
    ELSE task_dict

\* _assign_task(task_id, agent_id)
AssignTask(task_id, agent_id) ==
    /\ Len(action_history) < MaxActions
    /\ action_history' = log_action("assign_task")
    /\ mgr_tasks' = assign_in(mgr_tasks, task_id, agent_id)
    /\ last' = [Call("assign_task", NoContract,
                     IF has_task(task_id) /\ has_agent(agent_id) THEN "true" ELSE "false")
                    EXCEPT !.task_id = task_id]
    /\ ManagerFrame
    /\ UNCHANGED executor_vars

\* _add_dependency(prereq_id, dep_id): the membership test is made with dep_id
AddDependency(prereq_id, dep_id) ==
    /\ Len(action_history) < MaxActions
    /\ IF ~ has_task(prereq_id) \/ ~ has_task(dep_id)
       THEN /\ last' = Call("add_dependency", NoContract, "false")
            /\ UNCHANGED <<mgr_tasks, action_history>>
       ELSE /\ mgr_tasks' =
                  IF ~ InList(dep_id, mgr_tasks[task_index(dep_id)].dependencies)
                  THEN [mgr_tasks EXCEPT ![task_index(dep_id)].dependencies =
                                                Append(@, prereq_id)]
                  ELSE mgr_tasks
            /\ action_history' = log_action("add_dependency")
            /\ last' = Call("add_dependency", NoContract, "true")
    /\ ManagerFrame
    /\ UNCHANGED executor_vars

\* _get_pending_tasks(): can_start is all(self.state.tasks.get(d, Task(id="", name=""))
\* .status == "completed" for d in task.dependencies).  The default Task(id="", name="")
\* is built for every d before the lookup and lacks the required description, so the
\* first dependency of a pending task raises TypeError; a task without dependencies gets
\* all(()) = True.  The listing is sorted by len(dependencies), which is 0 for every entry
\* of a listing that is returned.
pending_raises ==
    \E i \in DOMAIN mgr_tasks :
        mgr_tasks[i].status = "pending" /\ mgr_tasks[i].dependencies # <<>>

RECURSIVE pending_listing(_)
pending_listing(task_list) ==
    IF task_list = <<>> THEN <<>>
    ELSE IF Head(task_list).status = "pending"
    THEN <<[id |-> Head(task_list).id, can_start |-> TRUE]>> \o pending_listing(Tail(task_list))
    ELSE pending_listing(Tail(task_list))

GetPendingTasks ==
    /\ last' = IF pending_raises
               THEN Call("get_pending_tasks", NoContract, "TypeError")
               ELSE [Call("get_pending_tasks", NoContract, "returned")
                        EXCEPT !.listing = pending_listing(mgr_tasks)]
    /\ UNCHANGED <<mgr_tasks, action_history>>
    /\ ManagerFrame
    /\ UNCHANGED executor_vars

\* list.remove(x): the first occurrence only
RECURSIVE list_remove(_, _)
list_remove(list, x) ==
    IF list = <<>> THEN <<>>
    ELSE IF Head(list) = x THEN Tail(list)
    ELSE <<Head(list)>> \o list_remove(Tail(list), x)

\* del self.state.tasks[task_id]
RECURSIVE del_task(_, _)
del_task(task_dict, task_id) ==
    IF task_dict = <<>> THEN <<>>
    ELSE IF Head(task_dict).id = task_id THEN Tail(task_dict)
    ELSE <<Head(task_dict)>> \o del_task(Tail(task_dict), task_id)

\* _remove_task(task_id)
RemoveTask(task_id) ==
    /\ Len(action_history) < MaxActions
    /\ IF ~ has_task(task_id)
       THEN /\ last' = [Call("remove_task", NoContract, "false") EXCEPT !.task_id = task_id]
            /\ UNCHANGED <<mgr_tasks, action_history>>
       ELSE /\ mgr_tasks' =
                  del_task([i \in DOMAIN mgr_tasks |->
                                IF InList(task_id, mgr_tasks[i].dependencies)
                                THEN [mgr_tasks[i] EXCEPT
                                         !.dependencies = list_remove(@, task_id)]
                                ELSE mgr_tasks[i]],
                           task_id)
            /\ action_history' = log_action("remove_task")
            /\ last' = [Call("remove_task", NoContract, "true") EXCEPT !.task_id = task_id]
    /\ ManagerFrame
    /\ UNCHANGED executor_vars

\* the loop of _decompose_task: count calls of _create_task(dependencies=[task_id]),
\* each on the dict the one before has left; ids are the returned subtask ids
RECURSIVE create_subtasks(_, _, _, _)
create_subtasks(task_dict, task_id, count, ids) ==
    IF count = 0
    THEN [tasks |-> task_dict, ids |-> ids]
    ELSE create_subtasks(put_in(task_dict, new_task(task_id_in(task_dict), <<task_id>>)),
                         task_id, count - 1, Append(ids, task_id_in(task_dict)))

RECURSIVE log_actions(_, _, _)
log_actions(history, action, count) ==
    IF count = 0 THEN history ELSE log_actions(Append(history, action), action, count - 1)

\* _decompose_task(task_id, max_subtasks); count is len(_generate_subtasks(description,
\* max_subtasks)).  parent_task is the object found before the subtasks were created:
\* "parent_task.dependencies = subtask_ids" reaches the dict only if no subtask has
\* taken the parent's key.
DecomposeTask(task_id, count) ==
    /\ Len(action_history) < MaxActions
    /\ IF ~ has_task(task_id)
       THEN /\ last' = [Call("decompose_task", NoContract, "returned")
                            EXCEPT !.task_id = task_id]
            /\ UNCHANGED <<mgr_tasks, action_history>>
       ELSE LET sub == create_subtasks(mgr_tasks, task_id, count, <<>>)
            IN  /\ mgr_tasks' =
                      IF InList(task_id, sub.ids)
                      THEN sub.tasks
                      ELSE [sub.tasks EXCEPT
                               ![key_index(sub.tasks, task_id)].dependencies = sub.ids]
                /\ action_history' =
                      Append(log_actions(action_history, "create_task", count),
                             "decompose_task")
                /\ last' = [Call("decompose_task", NoContract, "returned")
                                EXCEPT !.task_id = task_id, !.available = sub.ids]
    /\ ManagerFrame
    /\ UNCHANGED executor_vars

\* list(self.state.agents.keys())
RECURSIVE agent_keys(_)
agent_keys(registry) ==
    IF registry = <<>> THEN <<>> ELSE <<Head(registry).name>> \o agent_keys(Tail(registry))

\* the loop of _assign_all over the listing: round robin, skipping what cannot start
RECURSIVE assign_each(_, _, _, _)
assign_each(task_dict, pending, i, available_agents) ==
    IF i > Len(pending) THEN task_dict
    ELSE IF ~ pending[i].can_start
    THEN assign_each(task_dict, pending, i + 1, available_agents)
    ELSE assign_each(assign_in(task_dict, pending[i].id,
                               available_agents[((i - 1) % Len(available_agents)) + 1]),
                     pending, i + 1, available_agents)

\* _assign_all(agent_ids): agent_ids = <<>> stands for None
AssignAll(agent_ids) ==
    /\ Len(action_history) < MaxActions
    /\ IF pending_raises
       THEN /\ last' = Call("assign_all", NoContract, "TypeError")
            /\ UNCHANGED <<mgr_tasks, action_history>>
       ELSE LET available_agents == IF agent_ids = <<>> THEN agent_keys(AGENT_REGISTRY)
                                                      ELSE agent_ids
                pending == pending_listing(mgr_tasks)
            IN  /\ mgr_tasks' = assign_each(mgr_tasks, pending, 1, available_agents)
                /\ action_history' =
                      Append(log_actions(action_history, "assign_task", Len(pending)),
                             "assign_all")
                /\ last' = [Call("assign_all", NoContract, "returned")
                                EXCEPT !.listing = pending]
    /\ ManagerFrame
    /\ UNCHANGED executor_vars

KnownTaskIds == { mgr_tasks[i].id : i \in DOMAIN mgr_tasks } \cup { UnknownTask }
AssignAllAgents == { <<>>, <<"qwen", "nobody">> }
SubtaskCounts == 0..MaxSubtasks
AgentIds == { "qwen", "nobody" }

\* create_manager(goal) on a fresh state file, driven through its actions
InitManager == Init /\ Phi[Root] = <<>> /\ Psi[Root] = 0

NextManager ==
    \/ CreateTask(<<>>)
    \/ \E task_id \in KnownTaskIds, agent_id \in AgentIds : AssignTask(task_id, agent_id)
    \/ \E prereq_id \in KnownTaskIds, dep_id \in KnownTaskIds : AddDependency(prereq_id, dep_id)
    \/ GetPendingTasks
    \/ \E task_id \in KnownTaskIds : RemoveTask(task_id)
    \/ \E task_id \in KnownTaskIds, count \in SubtaskCounts : DecomposeTask(task_id, count)
    \/ \E agent_ids \in AssignAllAgents : AssignAll(agent_ids)
    \/ \E dt \in TickSteps : Tick(dt)

SpecManager == InitManager /\ [][NextManager]_vars

\* ------------------------------------------------------------------- claims
RECURSIVE ChildrenBudget(_, _)
ChildrenBudget(children, resource) ==
    IF children = <<>> THEN 0
    ELSE get_budget(Head(children), resource) + ChildrenBudget(Tail(children), resource)

FiniteRootDimensions == { resource \in ResourceDimension : get_budget(Root, resource) # Inf }

\* C1: for every dimension with a finite root budget B, the consumed amounts of the
\* enforcer's children plus the root's own consumed amount never exceed B.
C1_Conservation ==
    \A resource \in FiniteRootDimensions :
        ChildrenConsumed(child_contracts, resource) + get_consumption(Root, resource)
            <= get_budget(Root, resource)

\* C2: createChildContract creates and registers children, and for every dimension with a
\* finite root budget the budgets of the registered children sum to at most the root budget.
C2_ChildBudgetsWithinRoot ==
    /\ last.op = "create_child_contract" => (last.ok = "true" /\ Len(child_contracts) > 0)
    /\ \A resource \in FiniteRootDimensions :
            ChildrenBudget(child_contracts, resource) <= get_budget(Root, resource)

\* C3: on a contract in a terminal state, consume and evaluateSuccess return failure and
\* change neither the state nor the consumed amounts.
C3_TerminalRejects ==
    [][\A c \in Contracts :
        (/\ state[c] \in TerminalStates
         /\ last'.c = c
         /\ last'.op \in {"consume", "evaluate_success"})
        => (/\ last'.ok = "false"
            /\ state'[c] = state[c]
            /\ resource_consumption'[c] = resource_consumption[c])]_vars

\* C4: on an ACTIVE contract consume(dim, amount) returns success and commits the amount
\* exactly when consumed + amount <= budget, and returns failure for any larger request.
C4_ConsumeExact ==
    [][\A c \in Contracts :
        (state[c] = "active" /\ last'.op = "consume" /\ last'.c = c)
        => LET before == resource_consumption[c][last'.dim]
               within == before + last'.amount <= get_budget(c, last'.dim)
           IN  IF within
               THEN /\ last'.ok = "true"
                    /\ resource_consumption'[c][last'.dim] = before + last'.amount
               ELSE /\ last'.ok = "false"
                    /\ resource_consumption'[c] = resource_consumption[c]]_vars

\* C5: while a contract is ACTIVE, consumed <= budget in every dimension.
C5_ConsumedWithinBudget ==
    \A c \in Contracts :
        state[c] = "active" =>
            \A resource \in ResourceDimension :
                get_consumption(c, resource) <= get_budget(c, resource)

\* C6: a contract's state changes only DRAFTED -> ACTIVE or ACTIVE -> terminal.
C6_LegalTransitions ==
    [][\A c \in Contracts :
        (Constructed(c) /\ state'[c] # state[c])
        => \/ state[c] = "drafted" /\ state'[c] = "active"
           \/ state[c] = "active" /\ state'[c] \in TerminalStates]_vars

\* C7: activate succeeds only from DRAFTED and, for a contract with a parent, only if no
\* budget of the child exceeds a finite budget of its parent; success makes the contract
\* ACTIVE and a refusal leaves it DRAFTED.
C7_ActivateChecksParent ==
    [][\A c \in Contracts :
        (last'.op = "activate" /\ last'.c = c)
        => IF last'.ok = "true"
           THEN /\ state[c] = "drafted"
                /\ state'[c] = "active"
                /\ parent[c] # NoContract =>
                      \A resource \in DOMAIN R[c] :
                          \/ get_budget(parent[c], resource) = Inf
                          \/ R[c][resource] <= get_budget(parent[c], resource)
           ELSE /\ last'.ok = "false"
                /\ state'[c] = state[c]]_vars

\* C8: canProceed on an ACTIVE contract returns failure and moves it to EXPIRED if the window
\* has expired, else to VIOLATED if a finite-budget dimension has consumed >= budget, else to
\* TERMINATED if a termination predicate is true; otherwise it returns success and changes
\* nothing.  On a contract that is not ACTIVE it returns failure.
C8_Expected(c, outs) ==
    IF now - start_time[c] > duration[c] THEN "expired"
    ELSE IF \E resource \in ResourceDimension :
                /\ get_budget(c, resource) # Inf
                /\ resource_consumption[c][resource] >= get_budget(c, resource)
         THEN "violated"
    ELSE IF \E i \in DOMAIN outs : outs[i] = "true" THEN "terminated"
    ELSE "active"

C8_CanProceed ==
    [][\A c \in Contracts :
        (last'.op = "can_proceed" /\ last'.c = c)
        => IF state[c] # "active"
           THEN last'.ok = "false"
           ELSE IF C8_Expected(c, last'.outs) = "active"
           THEN /\ last'.ok = "true"
                /\ state'[c] = "active"
                /\ resource_consumption' = resource_consumption
           ELSE /\ last'.ok = "false"
                /\ state'[c] = C8_Expected(c, last'.outs)]_vars

\* C9: evaluateSuccess on an ACTIVE contract (with success criteria) returns the weighted
\* score of the criteria in every case; it moves the contract to FULFILLED and returns true
\* exactly when that score meets the threshold and the quality meets the minimum, and
\* otherwise returns false and leaves the state unchanged.
C9_EvaluateSuccess ==
    [][\A c \in Contracts :
        (state[c] = "active" /\ Phi[c] # <<>> /\ last'.op = "evaluate_success" /\ last'.c = c)
        => LET score == WeightedSum(Phi[c], last'.outs)
           IN  /\ last'.score = score
               /\ IF score >= 8 /\ last'.quality >= 8
                  THEN last'.ok = "true" /\ state'[c] = "fulfilled"
                  ELSE last'.ok = "false" /\ state'[c] = state[c]]_vars

\* C10: a constructed contract has its mode's defaults (URGENT 30 s, 50000 tokens,
\* 3 iterations; ECONOMICAL 60, 75000, 6; BALANCED 90, 100000, 10), and activate() changes
\* none of them.
C10_Defaults(c) ==
    /\ mode[c] = "urgent" =>
          duration[c] = 30 /\ get_budget(c, "tokens") = 50000 /\ get_budget(c, "iterations") = 3
    /\ mode[c] = "economical" =>
          duration[c] = 60 /\ get_budget(c, "tokens") = 75000 /\ get_budget(c, "iterations") = 6
    /\ mode[c] = "balanced" =>
          duration[c] = 90 /\ get_budget(c, "tokens") = 100000 /\ get_budget(c, "iterations") = 10

C10_ModeDefaults ==
    /\ \A c \in Contracts : Constructed(c) => C10_Defaults(c)
    /\ [][\A c \in Contracts :
            /\ (last'.op = "construct" /\ last'.c = c) => C10_Defaults(c)'
            /\ (last'.op = "activate" /\ last'.c = c) =>
                  (R'[c] = R[c] /\ duration'[c] = duration[c] /\ mode'[c] = mode[c])]_vars

C10_Witness ==
    /\ last.op = "activate" /\ last.c = Root /\ last.ok = "true"
    /\ state[Root] = "active"
    /\ mode[Root] = "urgent"
    /\ duration[Root] = 30 /\ get_budget(Root, "tokens") = 50000
    /\ get_budget(Root, "iterations") = 3

\* TemporalConstraints.duration when none is supplied
default_duration == 300

\* C11: a TOKENS budget, ITERATIONS budget or duration supplied explicitly to the
\* constructor is the value the constructed contract holds, for every mode.
C11_ExplicitOverrides ==
    last.op = "construct" =>
        /\ \A resource \in DOMAIN last.res : get_budget(last.c, resource) = last.res[resource]
        /\ last.dur # default_duration => duration[last.c] = last.dur

\* C18: createChildContract(mode) returns a new contract that is DRAFTED, has the root as
\* its parent, holds the computed allocation as its budget in every dimension with a finite
\* root budget, and is appended to the child list, which grows by exactly one.
C18_Held(budgets, resource) ==
    IF resource \in DOMAIN budgets THEN budgets[resource] ELSE Inf

C18_CreateChildContract ==
    [][last'.op = "create_child_contract" =>
        LET child == last'.c
            allocated == allocate_child_budget("equal", default_reserve_buffer)
        IN  /\ last'.ok = "true"
            /\ child \in Contracts
            /\ state'[child] = "drafted"
            /\ parent'[child] = Root
            /\ \A resource \in FiniteRootDimensions :
                    C18_Held(R'[child], resource) * allocated[resource].den
                        = allocated[resource].num
            /\ child_contracts' = Append(child_contracts, child)]_vars

\* C19: allocateChildBudget gives parentBudget * (1 - reserveBuffer) /
\* max(1, existingChildCount + 1) in every dimension with a finite parent budget, each
\* created child is registered with that share, and a later child's budget is never larger
\* than an earlier sibling's budget for the same dimension.
C19_Share(resource, reserve_buffer, existing) ==
    [num |-> get_budget(Root, resource) * (100 - reserve_buffer),
     den |-> 100 * (IF existing + 1 >= 1 THEN existing + 1 ELSE 1)]

C19_AllocationShrinks ==
    [][/\ last'.op = "allocate_child_budget" =>
            \A resource \in FiniteRootDimensions :
                last'.alloc[resource] =
                    C19_Share(resource, last'.reserve, Len(child_contracts))
       /\ last'.op = "create_child_contract" =>
            LET existing == Len(child_contracts)
            IN  /\ Len(child_contracts') = existing + 1
                /\ \A resource \in FiniteRootDimensions :
                      LET share == C19_Share(resource, default_reserve_buffer, existing)
                          new == child_contracts'[existing + 1]
                      IN  /\ C18_Held(R'[new], resource) * share.den = share.num
                          /\ \A i \in 1..existing :
                                C18_Held(R'[new], resource)
                                    <= C18_Held(R'[child_contracts[i]], resource)]_vars

\* C20: verifyConservation() returns true if and only if, for every dimension with a finite
\* root budget, the consumed amounts of all registered children plus the root's own
\* consumed amount do not exceed the root budget; it changes no contract state or ledger.
C20_VerifyConservation ==
    [][last'.op = "verify_conservation" =>
        /\ last'.ok = "true" <=>
                \A resource \in ResourceDimension :
                    get_budget(Root, resource) # Inf =>
                        SumSeq([i \in DOMAIN child_contracts |->
                                    resource_consumption[child_contracts[i]][resource]])
                            + resource_consumption[Root][resource]
                        <= get_budget(Root, resource)
        /\ last'.ok \in {"true", "false"}
        /\ UNCHANGED <<state, mode, parent, R, duration, start_time, resource_consumption,
                       Phi, Psi, lock, child_contracts>>]_vars

C20_Witness ==
    /\ last.op = "verify_conservation" /\ last.ok = "false"
    /\ state[Root] = "active"
    /\ get_consumption(Root, "tokens") > get_budget(Root, "tokens")

\* C12: when a contract is supplied, every planned batch has size 1 if the root's
\* maxUtilization is > 0.8, size at most 2 if it is > 0.5, and size at most
\* min(maxWorkers, 3) otherwise.
C12_Tier(c) ==
    LET above(tenths) ==
            \E resource \in FiniteRootDimensions :
                resource_consumption[c][resource] * 10 > tenths * get_budget(c, resource)
    IN  IF above(8) THEN 1
        ELSE IF above(5) THEN 2
        ELSE IF max_workers < 3 THEN max_workers ELSE 3

C12_BatchSizeTiers ==
    [][(last'.op = "execute_batch" /\ contract # NoContract) =>
        \A k \in DOMAIN batches' :
            /\ Len(batches'[k]) >= 1
            /\ Len(batches'[k]) <= C12_Tier(contract)]_vars

\* C13: the size of batch k+1 is fixed only after batch k has run and been collected,
\* never before batch k ran.
C13_PlannedAfterPreviousBatch ==
    \A k \in DOMAIN batches : k >= 2 => batch_num >= k - 1

\* C14: execute_batch returns exactly one result per submitted item, with or without a
\* contract; a failed item has success = false and a recorded error.
C14_OneResultPerItem ==
    /\ phase # "raised"
    /\ phase = "returned" =>
          /\ Len(results) = tasks
          /\ \A task \in 1..tasks :
                Cardinality({i \in DOMAIN results : results[i].task = task}) = 1
          /\ \A i \in DOMAIN results : ~ results[i].success => results[i].error # ""

\* C15: execute_batch under a contract collects its batches, and after that the child
\* contract of every item whose result is a failure is TERMINATED.
C15_FailedChildTerminated ==
    (contract # NoContract /\ tasks >= 1 /\ phase \in {"returned", "raised"}) =>
        /\ batch_num >= 1
        /\ \A i \in DOMAIN results :
              ~ results[i].success =>
                  IF results[i].contract \in Contracts
                  THEN state[results[i].contract] = "terminated"
                  ELSE FALSE

\* C16: without a contract execute_batch runs all items as one batch, computes no
\* utilization tier, touches no contract, and never has more than maxWorkers items
\* executing at once.
C16_SimpleParallel ==
    /\ [](contract = NoContract =>
            /\ Cardinality(running) <= max_workers
            /\ target_batch_size = 0 /\ batches = <<>> /\ batch_num = 0
            /\ phase = "pool" =>
                  running \cup {results[i].task : i \in DOMAIN results} = 1..started)
    /\ [][contract = NoContract =>
            /\ UNCHANGED <<state, mode, parent, R, duration, start_time,
                           resource_consumption, Phi, Psi, lock, child_contracts, waiting>>
            /\ last'.op = "execute_batch" =>
                  (tasks' >= 1 => phase' = "pool") /\ started' = 0 /\ running' = {}]_vars

C16_Witness ==
    /\ contract = NoContract /\ phase = "pool"
    /\ Cardinality(running) = max_workers
    /\ started < tasks
    /\ results # <<>>

\* C17: after execute_batch has run under an ACTIVE root contract with at least one item,
\* the root's recorded ITERATIONS consumption is greater than 0.
C17_ConsumptionFedBack ==
    (contract # NoContract /\ tasks >= 1 /\ phase \in {"returned", "raised"}
        /\ state[contract] = "active")
    => resource_consumption[contract]["iterations"] > 0

\* C21: select_agent picks by contract state in a fixed priority: URGENT mode yields the
\* first available agent of the speed ranking whatever the utilization; otherwise, with at
\* least 30 seconds remaining, maxUtilization > 0.8 yields the first available agent of the
\* efficiency ranking and maxUtilization < 0.5 that of the quality ranking; each call
\* appends exactly one entry to the selection history.
C21_FirstAvailable(ranking, available) ==
    LET ranked == { i \in DOMAIN ranking : \E k \in DOMAIN available : available[k] = ranking[i] }
    IN  ranking[CHOOSE i \in ranked : \A j \in ranked : i <= j]

C21_Picks(ranking, available, agent) ==
    (\E i \in DOMAIN ranking, k \in DOMAIN available : available[k] = ranking[i])
        => agent = C21_FirstAvailable(ranking, available)

C21_Utilization(above, tenths) ==
    \E resource \in ResourceDimension :
        /\ resource \in DOMAIN R[Root]
        /\ IF above
           THEN resource_consumption[Root][resource] * 10 > tenths * R[Root][resource]
           ELSE resource_consumption[Root][resource] * 10 >= tenths * R[Root][resource]

C21_SelectAgent ==
    [][last'.op = "select_agent" =>
        LET agent == last'.ok
            available == last'.available
            elapsed == now - start_time[Root]
            remaining == IF duration[Root] - elapsed > 0 THEN duration[Root] - elapsed ELSE 0
        IN  /\ mode[Root] = "urgent" =>
                  C21_Picks(<<"qwen", "claude", "crush", "gemini", "opencode">>, available, agent)
            /\ (mode[Root] # "urgent" /\ remaining >= 30 /\ C21_Utilization(TRUE, 8)) =>
                  C21_Picks(<<"qwen", "crush", "opencode", "gemini", "claude">>, available, agent)
            /\ (mode[Root] # "urgent" /\ remaining >= 30 /\ ~ C21_Utilization(FALSE, 5)) =>
                  C21_Picks(<<"claude", "gemini", "qwen", "crush", "opencode">>, available, agent)
            /\ Len(selection_history') = Len(selection_history) + 1
            /\ SubSeq(selection_history', 1, Len(selection_history)) = selection_history
            /\ selection_history'[Len(selection_history')].agent = agent]_vars

C21_Witness ==
    /\ last.op = "select_agent" /\ last.ok = "qwen"
    /\ \E k \in DOMAIN last.available : last.available[k] = "claude"
    /\ mode[Root] = "balanced" /\ state[Root] = "active"
    /\ resource_consumption[Root]["tokens"] = 90000
    /\ duration[Root] - (now - start_time[Root]) >= 30
    /\ Len(selection_history) = 2
    /\ selection_history[1].reason = "quality"
    /\ selection_history[2].reason = "resource_constraint"

\* C22: the pending-task listing holds exactly the pending tasks, each with can_start =
\* true if and only if every task it depends on has status completed; so after
\* add_dependency(prereq, dep) with prereq not completed, dep is listed with
\* can_start = false while prereq is still listed.
C22_CanStart(task) ==
    \A k \in DOMAIN task.dependencies :
        \E i \in DOMAIN mgr_tasks :
            mgr_tasks[i].id = task.dependencies[k] /\ mgr_tasks[i].status = "completed"

C22_PendingListing ==
    [][last'.op = "get_pending_tasks" =>
        /\ last'.ok = "returned"
        /\ \A i \in DOMAIN mgr_tasks :
              mgr_tasks[i].status = "pending" =>
                  \E k \in DOMAIN last'.listing :
                      /\ last'.listing[k].id = mgr_tasks[i].id
                      /\ last'.listing[k].can_start <=> C22_CanStart(mgr_tasks[i])
        /\ \A k \in DOMAIN last'.listing :
              \E i \in DOMAIN mgr_tasks :
                  mgr_tasks[i].id = last'.listing[k].id /\ mgr_tasks[i].status = "pending"]_vars

\* C23: concurrent consume_resource calls are atomic: the consumption of a dimension
\* changes only when a call returns true, and then by exactly that call's amount, so the
\* consumption is the sum of the amounts of the successful calls; and it never exceeds
\* the budget of the dimension.
C23_Returns(t) ==
    /\ consume_frame[t].pc = "write"
    /\ consume_frame'[t].pc = "idle"
    /\ last'.ok = "true"

C23_AtomicConsume ==
    /\ [][\A r \in ResourceDimension :
            /\ resource_consumption'[Root][r] # resource_consumption[Root][r] =>
                  \E t \in Threads : C23_Returns(t) /\ consume_frame[t].resource = r
            /\ \A t \in Threads :
                  C23_Returns(t) /\ consume_frame[t].resource = r =>
                      resource_consumption'[Root][r] =
                          resource_consumption[Root][r] + consume_frame[t].amount]_vars
    /\ [](\A r \in ResourceDimension :
            resource_consumption[Root][r] <= get_budget(Root, r))

\* one thread is between its read and its write while the other waits for the lock,
\* after an earlier call has already consumed
C23_Witness ==
    /\ consume_frame[1].pc = "write"
    /\ consume_frame[1].current = 30000
    /\ consume_frame[1].amount = 50000
    /\ consume_frame[2].pc = "acquire"
    /\ lock[Root] = 1
    /\ R[Root]["tokens"] = 100000

\* C24: every consume call returns: no caller of consume is left waiting for the
\* contract's lock, in particular when the request exceeds the budget.
C24_ConsumeReturns ==
    last.op = "consume" => last.ok \in {"true", "false"}

\* C25: a consume call on an ACTIVE contract that would exceed the budget returns false,
\* leaves the contract VIOLATED and leaves every consumed amount unchanged.
C25_OverBudgetRejected ==
    [][\A c \in Contracts :
        (/\ state[c] = "active"
         /\ last'.op = "consume" /\ last'.c = c
         /\ resource_consumption[c][last'.dim] + last'.amount > get_budget(c, last'.dim))
        => (/\ last'.ok = "false"
            /\ state'[c] = "violated"
            /\ resource_consumption'[c] = resource_consumption[c])]_vars

\* C26: consume, canProceed, evaluateSuccess and terminate called on a DRAFTED contract
\* leave it DRAFTED with every consumed amount 0.
C26_DraftedFrame ==
    [][\A c \in Contracts :
        (/\ state[c] = "drafted"
         /\ last'.c = c
         /\ last'.op \in {"consume", "can_proceed", "evaluate_success", "terminate"})
        => (/\ state'[c] = "drafted"
            /\ resource_consumption'[c] = ZeroConsumption)]_vars

\* C27: the start time of a contract is unset while the contract is DRAFTED, and it
\* changes only at a successful activate of a contract whose start time was unset, so it
\* is set at most once.
\* T.start_time holds no time value
C27_Unset(c) == start_time[c] \notin Nat

C27_StartTimeSetOnce ==
    /\ [](\A c \in Contracts : state[c] = "drafted" => C27_Unset(c))
    /\ [][\A c \in Contracts :
            (Constructed(c) /\ start_time'[c] # start_time[c])
            => (/\ last'.op = "activate" /\ last'.c = c /\ last'.ok = "true"
                /\ C27_Unset(c))]_vars

\* C28: expiry is monotonic: once is_expired is true of a contract it is true after every
\* later step, activate included.
C28_ExpiryMonotonic ==
    [][\A c \in Contracts :
        (Constructed(c) /\ is_expired(c)) => is_expired(c)']_vars

\* C29: once a contract has left DRAFTED, a set_budget call is refused: every budget of
\* the contract keeps its value.
C29_SetBudgetRefused ==
    [][\A c \in Contracts :
        (/\ Constructed(c) /\ state[c] # "drafted"
         /\ last'.op = "set_budget" /\ last'.c = c)
        => R'[c] = R[c]]_vars

\* C30: execute_batch under a contract runs its batches one after the other: when it has
\* ended, every planned batch has been run and collected, and the results of batch k
\* were all collected before any result of batch k+1.
C30_BatchOf(task) == CHOOSE k \in DOMAIN batches : InList(task, batches[k])

C30_BatchBarrier ==
    (contract # NoContract /\ Len(batches) >= 2 /\ phase \in {"returned", "raised"}) =>
        /\ batch_num = Len(batches)
        /\ \A i \in DOMAIN results, j \in DOMAIN results :
              i < j => C30_BatchOf(results[i].task) <= C30_BatchOf(results[j].task)

\* C31: under a contract, an item whose work unit is not invoked because can_proceed
\* refused has, when execute_batch has ended, a result that is a failure with a
\* contract-constraint error.
C31_CanProceedBeforeWork ==
    (~ simple_parallel /\ tasks >= 1 /\ phase \in {"returned", "raised"}) =>
        \A task \in 1..tasks :
            task > started =>
                \E i \in DOMAIN results :
                    /\ results[i].task = task
                    /\ ~ results[i].success
                    /\ results[i].error = "Contract constraint"

\* C32: allocation for a batch is a degradation path: execute_batch under a contract does
\* not end in an error of the allocation, it allocates at least one and at most one child
\* per item, and every allocated child has been activated.
C32_ShrinkOnActivationFailure ==
    (~ simple_parallel /\ tasks >= 1 /\ phase \in {"returned", "raised"}) =>
        /\ phase = "returned"
        /\ Len(child_contracts) \in 1..tasks
        /\ \A i \in DOMAIN child_contracts : state[child_contracts[i]] # "drafted"

\* C33: under a contract every item of a batch has its own child contract: as many
\* children are allocated as there are items, and no two results carry the same child.
C33_OneChildPerItem ==
    (~ simple_parallel /\ tasks >= 1 /\ phase \in {"returned", "raised"}) =>
        /\ Len(child_contracts) = tasks
        /\ \A i \in DOMAIN results, j \in DOMAIN results :
              i # j => results[i].contract # results[j].contract

\* C34: within one execute_batch the work unit of an item is invoked at most once: an
\* item that a worker takes was never taken before and has no result yet, and no item
\* has two results.
C34_NoRetry ==
    /\ [][\A task \in 1..MaxTasks :
            (task \in running' /\ task \notin running) =>
                /\ task > started
                /\ \A i \in DOMAIN results : results[i].task # task]_vars
    /\ [](\A i \in DOMAIN results, j \in DOMAIN results :
            i # j => results[i].task # results[j].task)

\* an item has failed, its result is collected, and the remaining items went on without
\* it being taken again
C34_Witness ==
    /\ phase = "returned"
    /\ tasks >= 2
    /\ Len(results) = tasks
    /\ \E i \in DOMAIN results : ~ results[i].success
    /\ ~ results[1].success

C36_RejectedNotFulfilled ==
    (~ simple_parallel /\ tasks >= 1 /\ phase \in {"returned", "raised"}) =>
        /\ Len(results) = tasks
        /\ \A i \in DOMAIN results :
              /\ results[i].contract \in Contracts
              /\ results[i].success => state[results[i].contract] = "fulfilled"
              /\ state[results[i].contract] = "fulfilled" =>
                    \A r \in ResourceDimension :
                        get_consumption(results[i].contract, r)
                            <= get_budget(results[i].contract, r)

\* C37: no task is in progress while one of the tasks it depends on is not completed.
C37_Completed(task_id) ==
    \E i \in DOMAIN mgr_tasks :
        mgr_tasks[i].id = task_id /\ mgr_tasks[i].status = "completed"

C37_DependenciesSequence ==
    \A i \in DOMAIN mgr_tasks :
        mgr_tasks[i].status = "in_progress" =>
            \A k \in DOMAIN mgr_tasks[i].dependencies :
                C37_Completed(mgr_tasks[i].dependencies[k])

\* C38: the id that create_task returns is not the id of a task already in the workflow,
\* and the number of tasks grows by exactly one.
C38_CreateNeverOverwrites ==
    [][last'.op = "create_task" =>
        /\ ~ has_task(last'.task_id)
        /\ Len(mgr_tasks') = Len(mgr_tasks) + 1]_vars

\* C39: the dependency graph of the tasks has no cycle: no task depends on itself through
\* a chain of dependencies.
C39_DependsOn(a, b) == InList(mgr_tasks[b].id, mgr_tasks[a].dependencies)

RECURSIVE C39_Reaches(_, _, _)
C39_Reaches(a, b, steps) ==
    IF steps = 0 THEN FALSE
    ELSE \/ C39_DependsOn(a, b)
         \/ \E m \in DOMAIN mgr_tasks : C39_DependsOn(a, m) /\ C39_Reaches(m, b, steps - 1)

C39_Acyclic ==
    \A a \in DOMAIN mgr_tasks : ~ C39_Reaches(a, a, Len(mgr_tasks))

\* C40: execute_plan_parallel always ends by returning: when the call has ended it has
\* returned, and it did so because no pending task was left or because no pending task
\* was executable.
C40_PlanLoopReturns ==
    plan_phase \in {"returned", "raised"} =>
        /\ plan_phase = "returned"
        /\ \/ plan_tasks = <<>>
           \/ find_executable_batch(plan_tasks, completed_tasks) = <<>>
====
